---- MODULE Spec2Model ----
(***************************************************************************)
(* Model of gensr (RootAsRole policy generator): the capability prober,    *)
(* the fail-then-add convergence loop, and the enforcement backends (POSIX *)
(* ACL, D-Bus policy files, polkit JSON document, system accounts).        *)
(*                                                                         *)
(* Option<T> values are modelled as sets with at most one element:         *)
(* None is {} and Some(x) is {x}.                                          *)
(***************************************************************************)
EXTENDS Integers, Sequences, FiniteSets, TLC

\* ------------------------------------------------------------------ bounds
\* The probe counter of the history saturates at MaxProbes.
MaxProbes == 8
\* Number of direct backend calls explored by the backend specification.
MaxCalls == 3

\* --------------------------------------------------------------- universes
\* Identities (system account names) used by the model.
Names == {"gsr_aa", "rar_bb"}
\* D-Bus destinations; enforce_policy also hands them to polkit as actions.
Dests == {"org.d1"}
\* Strings that may be keys or members of the polkit document.
Strs == Names \cup Dests
\* Absolute paths a policy may name.
Paths == {"/etc/app.conf", "/var/x"}
\* Capability names.
Caps == {"CAP_NET_BIND_SERVICE", "CAP_DAC_OVERRIDE"}
\* uids the account database hands out to new system accounts.
SysUids == {101, 102}
\* uids the driving process may start with (root, or an ordinary user).
ProcUids == {0, 1000}

\* ------------------------------------------------------------------ Access
\* bitflags Access: R = 0b100, W = 0b010, X = 0b001.
AccessR == 4
AccessW == 2
AccessX == 1

Bit(a, k) == (a \div k) % 2

Max2(a, b) == IF a >= b THEN a ELSE b

\* Every value of the bit set: the empty set and the seven combinations.
AccessAll == 0 .. (AccessR + AccessW + AccessX)

\* Mutant: the flags are intersected.
AccessAnd(a, b) ==
    AccessR * Bit(a, AccessR) * Bit(b, AccessR)
  + AccessW * Bit(a, AccessW) * Bit(b, AccessW)
  + AccessX * Bit(a, AccessX) * Bit(b, AccessX)

\* Access | Access (bitwise or of the three flags).
AccessOr(a, b) ==
    AccessR * Max2(Bit(a, AccessR), Bit(b, AccessR))
  + AccessW * Max2(Bit(a, AccessW), Bit(b, AccessW))
  + AccessX * Max2(Bit(a, AccessX), Bit(b, AccessX))

\* impl Display for Access: the present letters, in R, W, X order.
AccessDisplay(a) ==
    (IF Bit(a, AccessR) = 1 THEN <<"R">> ELSE <<>>)
 \o (IF Bit(a, AccessW) = 1 THEN <<"W">> ELSE <<>>)
 \o (IF Bit(a, AccessX) = 1 THEN <<"X">> ELSE <<>>)

\* Mutant: a lower-case letter is read as its flag.
access_flag_any_case(c) ==
    IF c \in {"r", "R"} THEN {AccessR}
    ELSE IF c \in {"w", "W"} THEN {AccessW}
    ELSE IF c \in {"x", "X"} THEN {AccessX}
    ELSE {}

\* The flag FromStr for Access adds for one character, {} for any other one.
access_flag(c) ==
    IF c = "R" THEN {AccessR}
    ELSE IF c = "W" THEN {AccessW}
    ELSE IF c = "X" THEN {AccessX}
    ELSE {}

\* The loop of from_str over the characters still to read, access being the
\* flags gathered so far; {} (AccessParseError) at the first other character.
RECURSIVE Access_from_str_from(_, _)
Access_from_str_from(str, access) ==
    IF str = <<>> THEN {access}
    ELSE IF access_flag(Head(str)) = {} THEN {}
    ELSE Access_from_str_from(Tail(str),
                              AccessOr(access, CHOOSE b \in access_flag(Head(str)) : TRUE))

\* impl FromStr for Access: Ok(flags) or Err(AccessParseError).
Access_from_str(str) == Access_from_str_from(str, 0)

\* posix_acl permission bits: ACL_READ = 4, ACL_WRITE = 2, ACL_EXECUTE = 1.
ACL_READ == 4
ACL_WRITE == 2
ACL_EXECUTE == 1

\* The bit str_to_permission adds for one character, {} for any other one.
perm_bit(c) ==
    IF c \in {"r", "R"} THEN {ACL_READ}
    ELSE IF c \in {"w", "W"} THEN {ACL_WRITE}
    ELSE IF c \in {"x", "X"} THEN {ACL_EXECUTE}
    ELSE {}

\* The loop of str_to_permission from character i on, perms being the bits
\* gathered so far; {} (an error) at the first character that is not one of
\* r, w, x in either case.
RECURSIVE str_to_permission_from(_, _, _)
str_to_permission_from(perm, i, perms) ==
    IF i > Len(perm) THEN {perms}
    ELSE IF perm_bit(perm[i]) = {} THEN {}
    ELSE str_to_permission_from(perm, i + 1,
                                AccessOr(perms, CHOOSE b \in perm_bit(perm[i]) : TRUE))

\* str_to_permission: Some(bits) or an error.
str_to_permission(perm) == str_to_permission_from(perm, 1, 0)

\* ------------------------------------------------------------------ Policy
Range(s) == {s[i] : i \in 1..Len(s)}

\* struct Policy.
MkPolicy(su, sg, caps, files, dbus, env, pw) ==
    [setuid |-> su, setgid |-> sg, capabilities |-> caps, files |-> files,
     dbus |-> dbus, env_vars |-> env, password_prompt |-> pw]

EmptyMap == [x \in {} |-> 0]

\* impl Default for Policy.
PolicyDefault == MkPolicy({}, {}, <<>>, EmptyMap, <<>>, EmptyMap, "perform")

\* parse_sauthentication: Some(value) for "skip" and "perform", else an error.
parse_sauthentication(auth) ==
    IF auth = "skip" THEN {"skip"}
    ELSE IF auth = "perform" THEN {"perform"}
    ELSE {}

\* HashMap::extend: every pair of `other` is inserted, replacing the value of
\* a key already present.
map_extend(map, other) ==
    [k \in (DOMAIN map) \cup (DOMAIN other) |->
        IF k \in DOMAIN other THEN other[k] ELSE map[k]]

\* The files of a merge: a clone of self.files in which each key shared with
\* rhs.files is set to the OR of the two values, then extended with
\* rhs.files.
merge_files(self_files, rhs_files) ==
    map_extend([k \in DOMAIN self_files |->
                   IF k \in DOMAIN rhs_files
                   THEN AccessOr(self_files[k], rhs_files[k])
                   ELSE self_files[k]],
               rhs_files)

\* Mutant: None when both sides are Some.
option_or_exclusive(x, y) == IF x = {} THEN y ELSE IF y = {} THEN x ELSE {}

\* Option::or.
option_or(x, y) == IF x # {} THEN x ELSE y

\* impl BitOr for Policy: self | rhs.
Policy_bitor(self, rhs) ==
    MkPolicy(option_or(self.setuid, rhs.setuid),
             option_or(self.setgid, rhs.setgid),
             self.capabilities \o rhs.capabilities,
             merge_files(self.files, rhs.files),
             self.dbus \o rhs.dbus,
             map_extend(self.env_vars, rhs.env_vars),
             self.password_prompt)

\* impl BitOrAssign for Policy: self |= rhs.
Policy_bitor_assign(self, rhs) ==
    [self EXCEPT !.capabilities = self.capabilities \o rhs.capabilities,
                 !.files = merge_files(self.files, rhs.files),
                 !.dbus = self.dbus \o rhs.dbus]

\* ------------------------------------------------------- identity derivation
\* Strings are sequences of characters.  A hasher is the sequence of bytes
\* fed to it so far; the digest of Sha224 is modelled as collision-free: it
\* determines, and is determined by, the bytes that were fed.
Sha224_new == <<>>
Sha224_update(hasher, bytes) == hasher \o bytes
Sha224_finalize(hasher) == [sha224 |-> hasher]

\* hex::encode: two hexadecimal digits per byte of the digest (injective).
hex_encode(hash) == [hex |-> hash]

\* format!("rar_{}", ..) / format!("gsr_{}", ..): the prefix followed by the
\* 56 digits.
format_username(prefix, digits) == <<prefix, digits>>

\* get_username_ansible(playbook, task).
get_username_ansible(playbook, task) ==
    format_username("rar_",
        hex_encode(Sha224_finalize(
            Sha224_update(Sha224_update(Sha224_new, playbook), task))))

\* for c in command { hasher.update(c.as_bytes()) }
RECURSIVE update_each(_, _)
update_each(hasher, command) ==
    IF command = <<>> THEN hasher
    ELSE update_each(Sha224_update(hasher, Head(command)), Tail(command))

\* Mutant: the raw-command scheme takes the prefix of the playbook scheme.
get_username_gensr_rar(command) ==
    format_username("rar_",
        hex_encode(Sha224_finalize(update_each(Sha224_new, command))))

\* get_username_gensr(command).
get_username_gensr(command) ==
    format_username("gsr_",
        hex_encode(Sha224_finalize(update_each(Sha224_new, command))))

\* main: the username of a Generate command; playbook and task are Options.
main_username(playbook, task, command) ==
    IF playbook # {} /\ task # {}
    THEN get_username_ansible(CHOOSE x \in playbook : TRUE, CHOOSE x \in task : TRUE)
    ELSE get_username_gensr(command)

\* ------------------------------------------------------- enforcement state
\* The OS-level stores the tool reads and writes:
\*   users        account database: name -> Option<uid>
\*   acl          POSIX ACL user entries: path -> uid -> Option<perm bits>
\*   present      the paths that exist on the file system
\*   dbus_files   <rootasrole_folder>/<user>.conf: name -> Option<destinations>
\*   system_conf  system.conf: Option<number of includedir elements for the
\*                managed folder>
\*   polkit       rules.d/rootasrole.json: exists, and the identity -> actions map
\*   rules_js     rules.d/rootasrole.js has been written
Result(status, s) == [status |-> status, sys |-> s]

MinOf(S) == CHOOSE x \in S : \A y \in S : x <= y

\* useradd: the existing account, or a new system account.
useradd(s, username) ==
    IF s.users[username] # {} THEN Result("ok", s)
    ELSE LET free == SysUids \ UNION {s.users[n] : n \in DOMAIN s.users}
         IN  IF free = {} THEN Result("err", s)
             ELSE Result("ok", [s EXCEPT !.users[username] = {MinOf(free)}])

\* userdel: runs `userdel -r`; its exit status is not inspected.
userdel(s, username) == [s EXCEPT !.users[username] = {}]

\* set_acl: OR the requested bits into the uid's entry of the path's ACL.
set_acl(s, uid, path, permissions) ==
    IF path \notin s.present THEN Result("err", s)
    ELSE LET cur == s.acl[path][uid]
             current == IF cur = {} THEN 0 ELSE CHOOSE c \in cur : TRUE
             perm == str_to_permission(permissions)
         IN  IF perm = {} THEN Result("err", s)
             ELSE Result("ok", [s EXCEPT !.acl[path][uid] =
                                  {AccessOr(current, CHOOSE q \in perm : TRUE)}])

\* Mutant: the entry is left in the ACL.
del_acl_kept(s, uid, path) ==
    IF path \notin s.present THEN Result("err", s) ELSE Result("ok", s)

\* del_acl: remove the uid's entry from the path's ACL.
del_acl(s, uid, path) ==
    IF path \notin s.present THEN Result("err", s)
    ELSE Result("ok", [s EXCEPT !.acl[path][uid] = {}])

\* DBusPolicyBuilder::add_policy: (over)write <user>.conf with one allow
\* element per destination.
dbus_add_policy(s, user, dbus_permissions) ==
    Result("ok", [s EXCEPT !.dbus_files[user] = {dbus_permissions}])

\* Mutant: the includedir element is appended without the scan.
insert_new_dbus_config_folder_unchecked(s) ==
    IF s.system_conf = {} THEN Result("err", s)
    ELSE Result("ok", [s EXCEPT !.system_conf =
                          {(CHOOSE k \in s.system_conf : TRUE) + 1}])

\* DBusPolicyBuilder::insert_new_dbus_config_folder (called by build): append
\* an includedir element for the managed folder unless one is present.
insert_new_dbus_config_folder(s) ==
    IF s.system_conf = {} THEN Result("err", s)
    ELSE LET n == CHOOSE k \in s.system_conf : TRUE
         IN  IF n > 0 THEN Result("ok", s)
             ELSE Result("ok", [s EXCEPT !.system_conf = {n + 1}])

\* PolkitPolicyWorker::add_policy: read the document (or start from an empty
\* map), extend the user's action set, write the document back.
\* policy.get_mut(user).get_or_insert(&mut HashSet::new()) yields the user's
\* set when the user has an entry, and otherwise a temporary set that is not
\* part of the map.
polkit_add_policy(s, user, dbus_permissions) ==
    LET policy == IF s.polkit.exists THEN s.polkit.doc ELSE EmptyMap
        permissions == Range(dbus_permissions)
        extended == IF user \in DOMAIN policy
                    THEN [policy EXCEPT ![user] = @ \cup permissions]
                    ELSE policy
    IN  Result("ok", [s EXCEPT !.polkit = [exists |-> TRUE, doc |-> extended]])

\* PolkitPolicyWorker::check_policy: [status, value]; an error when the
\* document cannot be opened.
polkit_check_policy(s, user, action) ==
    IF ~s.polkit.exists THEN [status |-> "err", value |-> FALSE]
    ELSE IF user \in DOMAIN s.polkit.doc
         THEN [status |-> "ok", value |-> action \in s.polkit.doc[user]]
         ELSE [status |-> "ok", value |-> FALSE]

\* PolkitPolicyWorker::del_policy: read the document, drop the user's entry,
\* write it back; an error when the document cannot be opened.
polkit_del_policy(s, username) ==
    IF ~s.polkit.exists THEN Result("err", s)
    ELSE Result("ok", [s EXCEPT !.polkit.doc =
                         [u \in (DOMAIN s.polkit.doc) \ {username} |-> s.polkit.doc[u]]])

\* PolkitPolicyWorker::build: write the rule script.
polkit_build(s) == Result("ok", [s EXCEPT !.rules_js = TRUE])

\* check_polkit: "ok" (exit success), "denied" (PermissionDenied) or "err".
check_polkit(s, user, action) ==
    LET r == polkit_check_policy(s, user, action)
    IN  IF r.status = "err" THEN "err"
        ELSE IF r.value THEN "ok" ELSE "denied"

\* main, Commands::Polkit { user, action }: the call made on check_polkit.
main_polkit(s, user, action) == check_polkit(s, action, user)

\* The sequences that enumerate the set S once each: the orders in which a
\* HashMap with key set S may be iterated.
Orders(S) == {o \in [1..Cardinality(S) -> S] : Range(o) = S}

\* Every iteration order of every set of paths.
FileOrders == UNION {Orders(S) : S \in SUBSET Paths}

\* Mutant: the loop goes on after a failed grant and reports it at the end.
RECURSIVE set_acl_each_continue(_, _, _, _)
set_acl_each_continue(s, uid, files, order) ==
    IF order = <<>> THEN Result("ok", s)
    ELSE LET r == set_acl(s, uid, Head(order), AccessDisplay(files[Head(order)]))
             rest == set_acl_each_continue(r.sys, uid, files, Tail(order))
         IN  IF r.status # "ok" THEN Result(r.status, rest.sys) ELSE rest

\* The ACL loop of enforce_policy over the paths still to visit.
RECURSIVE set_acl_each(_, _, _, _)
set_acl_each(s, uid, files, order) ==
    IF order = <<>> THEN Result("ok", s)
    ELSE LET r == set_acl(s, uid, Head(order), AccessDisplay(files[Head(order)]))
         IN  IF r.status # "ok" THEN r
             ELSE set_acl_each(r.sys, uid, files, Tail(order))

\* The ACL loop of remove_policy over the paths still to visit.
RECURSIVE del_acl_each(_, _, _)
del_acl_each(s, uid, order) ==
    IF order = <<>> THEN Result("ok", s)
    ELSE LET r == del_acl(s, uid, Head(order))
         IN  IF r.status # "ok" THEN r
             ELSE del_acl_each(r.sys, uid, Tail(order))

\* The ? operator on a backend result: stop at the first failure, else
\* continue with the stores as the call left them.
Try(r, K(_)) == IF r.status # "ok" THEN r ELSE K(r.sys)

\* user.uid of an existing account.
UidOf(s, username) == CHOOSE u \in s.users[username] : TRUE

\* enforce_policy(username, policy); order is the iteration order of
\* policy.files.
enforce_policy(s, username, policy, order) ==
    Try(useradd(s, username), LAMBDA s1 :
    Try(set_acl_each(s1, UidOf(s1, username), policy.files, order), LAMBDA s2 :
    Try(dbus_add_policy(s2, username, policy.dbus), LAMBDA s3 :
    Try(insert_new_dbus_config_folder(s3), LAMBDA s4 :
    Try(polkit_add_policy(s4, username, policy.dbus), LAMBDA s5 :
    polkit_build(s5))))))

\* The D-Bus step of remove_policy: delete <username>.conf if it exists.
dbus_remove_file(s, username) ==
    IF s.dbus_files[username] # {}
    THEN Result("ok", [s EXCEPT !.dbus_files[username] = {}])
    ELSE Result("ok", s)

\* remove_policy(username, policy); order is the iteration order of
\* policy.files.  A missing account is a panic (expect).
remove_policy(s, username, policy, order) ==
    IF s.users[username] = {} THEN Result("panic", s) ELSE
    Try(del_acl_each(s, UidOf(s, username), order), LAMBDA s1 :
    Try(dbus_remove_file(userdel(s1, username), username), LAMBDA s2 :
    polkit_del_policy(s2, username)))

\* ----------------------------------------------------------------- prober
\* parse_capset_iter: Some(set of capabilities), or an error on an unknown name.
parse_capset_iter(names) ==
    IF Range(names) \subseteq Caps THEN {Range(names)} ELSE {}

\* Capable::new: the attempted set starts empty under fail-then-add and is
\* the bounding set otherwise.
Capable_new(fail_then_add, bounding) ==
    [previous_caps |-> {}, caps |-> IF fail_then_add THEN {} ELSE bounding,
     ran |-> FALSE, failed |-> FALSE]

\* Mutant: the delta is not added to the attempted set.
add_caps_dropped(cap, caps) == [cap EXCEPT !.previous_caps = cap.caps]

\* Capable::add_caps.
add_caps(cap, caps) ==
    [cap EXCEPT !.previous_caps = cap.caps, !.caps = cap.caps \cup caps]

\* Capable::has_ran / Capable::is_failed.
has_ran(cap) == cap.ran
is_failed(cap) == cap.failed

\* The policy parsed from the scratch file, stamped with the driving
\* process's uid and groups (Capable::run, after the parse).
Stamp(report, pr) ==
    [report EXCEPT !.setuid = {pr.uid}, !.setgid = {pr.groups}]

\* The report a stamped policy was parsed from.
Unstamped(pol) == [pol EXCEPT !.setuid = {}, !.setgid = {}]

\* Capable::run when the scratch file parses: records the exit status, then
\* the stamped policy, then ran.
Capable_run(cap, pr, exit, report) ==
    [capable |-> [cap EXCEPT !.failed = (exit # 0), !.ran = TRUE],
     policy  |-> Stamp(report, pr)]

\* Mutant: ran is set before the scratch file is parsed.
Capable_run_invalid_ran(cap, exit) ==
    [cap EXCEPT !.failed = (exit # 0), !.ran = TRUE]

\* Capable::run when the scratch file is missing or malformed: failed has
\* been recorded, the parse error is returned before ran is set.
Capable_run_invalid(cap, exit) == [cap EXCEPT !.failed = (exit # 0)]

\* A backend result together with the prober.
WithCapable(r, cap) == [status |-> r.status, sys |-> r.sys, capable |-> cap]

\* Mutant: the capabilities are added, the policy is not enforced.
Policy_apply_parsed_caps_only(parsed, s, cap, username, policy, order) ==
    IF parsed = {} THEN [status |-> "err", sys |-> s, capable |-> cap]
    ELSE WithCapable(Result("ok", s), add_caps(cap, CHOOSE c \in parsed : TRUE))

\* Policy::apply: add the policy's capabilities to the attempted set, then
\* enforce_policy.  [status, sys, capable].
Policy_apply_parsed(parsed, s, cap, username, policy, order) ==
    IF parsed = {} THEN [status |-> "err", sys |-> s, capable |-> cap]
    ELSE WithCapable(enforce_policy(s, username, policy, order),
                     add_caps(cap, CHOOSE c \in parsed : TRUE))

Policy_apply(s, cap, username, policy, order) ==
    Policy_apply_parsed(parse_capset_iter(policy.capabilities),
                        s, cap, username, policy, order)

\* Mutant: the revocation is skipped.
Policy_remove_skipped(s, username, policy, order) == Result("ok", s)

\* Policy::remove.
Policy_remove(s, username, policy, order) ==
    remove_policy(s, username, policy, order)

\* -------------------------------------------------------- traced command
\* What the tracer writes to the scratch file: a policy without identity.
\* The reports explored: nothing; one capability; one capability and one
\* file; two capabilities (in either order), a file and a destination; two
\* capabilities, two files and a destination.
Report(caps, files, dbus) == MkPolicy({}, {}, caps, files, dbus, EmptyMap, "perform")
ConfR == [x \in {"/etc/app.conf"} |-> AccessR]
BothFiles == [x \in Paths |-> IF x = "/etc/app.conf" THEN AccessR + AccessW ELSE AccessX]
Reports ==
    {Report(<<>>, EmptyMap, <<>>),
     Report(<<"CAP_NET_BIND_SERVICE">>, EmptyMap, <<>>),
     Report(<<"CAP_NET_BIND_SERVICE">>, ConfR, <<>>),
     Report(<<"CAP_NET_BIND_SERVICE", "CAP_DAC_OVERRIDE">>, ConfR, <<"org.d1">>),
     Report(<<"CAP_DAC_OVERRIDE", "CAP_NET_BIND_SERVICE">>, ConfR, <<"org.d1">>),
     Report(<<"CAP_NET_BIND_SERVICE", "CAP_DAC_OVERRIDE">>, BothFiles, <<"org.d1">>)}

\* The scenario command: it needs CAP_NET_BIND_SERVICE and read access to
\* /etc/app.conf and nothing else.
RequiredCap == "CAP_NET_BIND_SERVICE"
Required == Report(<<RequiredCap>>, ConfR, <<>>)

\* r asks for nothing that q does not ask for.
ReqLeq(r, q) ==
    /\ Range(r.capabilities) \subseteq Range(q.capabilities)
    /\ DOMAIN r.files \subseteq DOMAIN q.files
    /\ \A f \in DOMAIN r.files : AccessOr(r.files[f], q.files[f]) = q.files[f]
    /\ Range(r.dbus) \subseteq Range(q.dbus)

\* The outcomes (exit status, report) the traced command may produce when
\* probed with the attempted set caps.  "any": every outcome.  "needscap":
\* the scenario command, which fails exactly when RequiredCap is not in the
\* attempted set, then reporting the denied capability and at most the files
\* it needs, and otherwise succeeds reporting exactly what it needs.
TracerMay(cmd, caps, exit, r) ==
    IF cmd = "any" THEN TRUE
    ELSE IF RequiredCap \in caps THEN exit = 0 /\ r = Required
    ELSE /\ exit # 0
         /\ RequiredCap \in Range(r.capabilities)
         /\ ReqLeq(r, Required)

\* -------------------------------------------------------------- role store
\* serde_json::Value, as far as the extra fields of a task use it.
JString(str) == [kind |-> "string", str |-> str]
JArray(items) == [kind |-> "array", items |-> items]
JObject(fields) == [kind |-> "object", fields |-> fields]

\* Value::as_str / as_array / as_object: Some for a value of that kind.
as_str(v) == IF v.kind = "string" THEN {v.str} ELSE {}
as_array(v) == IF v.kind = "array" THEN {v.items} ELSE {}
as_object(v) == IF v.kind = "object" THEN {v.fields} ELSE {}

\* Policy::to_scapabilities: None for an empty list or a name that does not
\* parse.
to_scapabilities(policy) ==
    IF policy.capabilities = <<>> THEN {}
    ELSE parse_capset_iter(policy.capabilities)

\* Policy::to_sfiles: an object path -> String(access.to_string()).
to_sfiles(policy) ==
    JObject([f \in DOMAIN policy.files |-> JString(AccessDisplay(policy.files[f]))])

\* Policy::to_sdbus: an array of String(destination).
to_sdbus(policy) ==
    JArray([i \in DOMAIN policy.dbus |-> JString(policy.dbus[i])])

\* SActorType::Name.
ActorName(name) == [kind |-> "Name", name |-> name]

\* A task of the role store: its name, the credentials deploy and undeploy
\* read (setuid, capabilities, the extra fields "files" and "dbus"), and the
\* options output_policy sets.
STask(name, setuid, capabilities, files, dbus, options) ==
    [name |-> name,
     cred |-> [setuid |-> setuid, capabilities |-> capabilities,
               extra |-> [files |-> files, dbus |-> dbus]],
     options |-> options]

\* Policy::to_stask(username, task).
to_stask(policy, username, task) ==
    STask(IF task = {} THEN username ELSE CHOOSE t \in task : TRUE,
          {ActorName(username)}, to_scapabilities(policy),
          {to_sfiles(policy)}, {to_sdbus(policy)}, {})

\* SRole: a name and its tasks.
SRole(name, tasks) == [name |-> name, tasks |-> tasks]

\* SConfig::role(name): the index of the first role of that name (Option).
role_index(roles, name) ==
    LET found == {i \in DOMAIN roles : roles[i].name = name}
    IN  IF found = {} THEN {} ELSE {MinOf(found)}

\* Mutant: the same-name test always fails.
task_exists_never(tasks, name) == FALSE

\* role.tasks.iter().any(|t| t.name == task.name)
task_exists(tasks, name) == \E i \in DOMAIN tasks : tasks[i].name = name

\* output_policy, Mode::Auto with a --config: the roles after the task built
\* from the policy has been merged in.
merge_task(roles, username, task) ==
    LET found == role_index(roles, username)
    IN  IF found = {}
        THEN Append(roles, SRole(username, <<task>>))
        ELSE LET i == CHOOSE k \in found : TRUE
             IN  IF task_exists(roles[i].tasks, task.name) THEN roles
                 ELSE [roles EXCEPT ![i].tasks = Append(@, task)]

\* output_policy: the task with the options it is given (authentication
\* Skip, the environment variables of the policy kept).
output_task(policy, username, task) ==
    [to_stask(policy, username, task) EXCEPT
       !.options = {[authentication |-> "skip", env_keep |-> DOMAIN policy.env_vars]}]

\* ------------------------------------------------------ deploy / undeploy
\* format!("{}-{}", r_name, &task.name)
format_role_task(r_name, task_name) == r_name \o "-" \o task_name

\* username.starts_with(prefix)
starts_with(str, prefix) ==
    Len(str) >= Len(prefix) /\ SubSeq(str, 1, Len(prefix)) = prefix

\* The order in which the keys S of a JSON object are iterated, given the
\* order keys of all paths.
key_order(keys, S) == SelectSeq(keys, LAMBDA f : f \in S)

\* cred._extra_fields.get(key).map(|value| value.as_object()).flatten(), and
\* the same with as_array; field is the Option held under the key.
get_object(field) == UNION {as_object(v) : v \in field}
get_array(field) == UNION {as_array(v) : v \in field}

\* The loop of deploy_acl over the paths still to visit; a permission that is
\* not a string is a panic (unwrap).
RECURSIVE deploy_acl_each(_, _, _, _)
deploy_acl_each(s, uid, files, order) ==
    IF order = <<>> THEN Result("ok", s)
    ELSE IF as_str(files[Head(order)]) = {} THEN Result("panic", s)
    ELSE LET r == set_acl(s, uid, Head(order),
                          CHOOSE x \in as_str(files[Head(order)]) : TRUE)
         IN  IF r.status # "ok" THEN r
             ELSE deploy_acl_each(r.sys, uid, files, Tail(order))

\* deploy_acl(cred, user).
deploy_acl(s, cred, uid, keys) ==
    IF get_object(cred.extra.files) = {} THEN Result("ok", s)
    ELSE deploy_acl_each(s, uid, CHOOSE m \in get_object(cred.extra.files) : TRUE,
                         key_order(keys, DOMAIN (CHOOSE m \in get_object(cred.extra.files) : TRUE)))

\* object.as_array().unwrap().iter().map(|v| v.as_str().unwrap()).collect():
\* Some(the strings), or None where one of the unwraps panics.
collect_permissions(object) ==
    IF as_array(object) = {} THEN {}
    ELSE LET items == CHOOSE a \in as_array(object) : TRUE
         IN  IF \E i \in DOMAIN items : as_str(items[i]) = {} THEN {}
             ELSE {[i \in DOMAIN items |-> CHOOSE x \in as_str(items[i]) : TRUE]}

\* The loop of deploy_dbus over the elements still to visit.
RECURSIVE deploy_dbus_each(_, _, _)
deploy_dbus_each(s, username, objects) ==
    IF objects = <<>> THEN Result("ok", s)
    ELSE IF collect_permissions(Head(objects)) = {} THEN Result("panic", s)
    ELSE LET r == dbus_add_policy(s, username,
                      CHOOSE x \in collect_permissions(Head(objects)) : TRUE)
         IN  IF r.status # "ok" THEN r
             ELSE deploy_dbus_each(r.sys, username, Tail(objects))

\* deploy_dbus(cred, builder, username).
deploy_dbus(s, cred, username) ==
    IF get_array(cred.extra.dbus) = {} THEN Result("ok", s)
    ELSE deploy_dbus_each(s, username, CHOOSE a \in get_array(cred.extra.dbus) : TRUE)

\* The loop of deploy_polkit over the elements still to visit.
RECURSIVE deploy_polkit_each(_, _, _)
deploy_polkit_each(s, username, objects) ==
    IF objects = <<>> THEN Result("ok", s)
    ELSE IF collect_permissions(Head(objects)) = {} THEN Result("panic", s)
    ELSE LET r == polkit_add_policy(s, username,
                      CHOOSE x \in collect_permissions(Head(objects)) : TRUE)
         IN  IF r.status # "ok" THEN r
             ELSE deploy_polkit_each(r.sys, username, Tail(objects))

\* deploy_polkit(cred, username).
deploy_polkit(s, cred, username) ==
    IF get_array(cred.extra.dbus) = {} THEN Result("ok", s)
    ELSE deploy_polkit_each(s, username, CHOOSE a \in get_array(cred.extra.dbus) : TRUE)

\* The (role name, task) pairs of a store in the order the two nested loops
\* visit them.
RECURSIVE store_tasks(_)
store_tasks(roles) ==
    IF roles = <<>> THEN <<>>
    ELSE [i \in DOMAIN Head(roles).tasks |->
            [r_name |-> Head(roles).name, task |-> Head(roles).tasks[i]]]
         \o store_tasks(Tail(roles))

\* The body of the loops of setup_role_based_access for one task.
deploy_task(s, username, cred, keys) ==
    Try(useradd(s, username), LAMBDA s1 :
    Try(deploy_acl(s1, cred, UidOf(s1, username), keys), LAMBDA s2 :
    Try(deploy_dbus(s2, cred, username), LAMBDA s3 :
    deploy_polkit(s3, cred, username))))

RECURSIVE deploy_tasks(_, _, _)
deploy_tasks(s, tasks, keys) ==
    IF tasks = <<>> THEN Result("ok", s)
    ELSE LET r == deploy_task(s, format_role_task(Head(tasks).r_name,
                                                  Head(tasks).task.name),
                              Head(tasks).task.cred, keys)
         IN  IF r.status # "ok" THEN r
             ELSE deploy_tasks(r.sys, Tail(tasks), keys)

\* DBusPolicyBuilder::enforce: systemctl reload dbus, exit status ignored.
reload_dbus(s) == Result("ok", s)

\* setup_role_based_access(config); keys is the key order of the "files"
\* objects.
setup_role_based_access(s, roles, keys) ==
    Try(deploy_tasks(s, store_tasks(roles), keys), LAMBDA s1 :
    Try(insert_new_dbus_config_folder(s1), LAMBDA s2 :
    reload_dbus(s2)))

\* The loop of remove_acl over the paths still to visit.
remove_acl(s, cred, uid, keys) ==
    IF get_object(cred.extra.files) = {} THEN Result("ok", s)
    ELSE del_acl_each(s, uid,
                      key_order(keys, DOMAIN (CHOOSE m \in get_object(cred.extra.files) : TRUE)))

\* The body of the loops of remove_role_based_access for one task: only a
\* setuid name with one of the two prefixes is revoked; a missing account
\* is a panic (unwrap).
undeploy_task(s, cred, keys) ==
    IF \E a \in cred.setuid :
          /\ a.kind = "Name"
          /\ starts_with(a.name, "rar_") \/ starts_with(a.name, "gsr_")
    THEN LET username == (CHOOSE a \in cred.setuid : TRUE).name
         IN  IF s.users[username] = {} THEN Result("panic", s)
             ELSE Try(polkit_del_policy(s, username), LAMBDA s1 :
                  Try(remove_acl(s1, cred, UidOf(s, username), keys), LAMBDA s2 :
                  Result("ok", userdel(s2, username))))
    ELSE Result("ok", s)

RECURSIVE undeploy_tasks(_, _, _)
undeploy_tasks(s, tasks, keys) ==
    IF tasks = <<>> THEN Result("ok", s)
    ELSE LET r == undeploy_task(s, Head(tasks).task.cred, keys)
         IN  IF r.status # "ok" THEN r
             ELSE undeploy_tasks(r.sys, Tail(tasks), keys)

\* fs::remove_dir_all(rootasrole_folder): every policy file of the managed
\* folder is deleted (the folder was created by DBusPolicyBuilder::new).
remove_dbus_folder(s) ==
    Result("ok", [s EXCEPT !.dbus_files = [n \in DOMAIN s.dbus_files |-> {}]])

\* remove_role_based_access(config).
remove_role_based_access(s, roles, keys) ==
    Try(remove_dbus_folder(s), LAMBDA s1 :
    undeploy_tasks(s1, store_tasks(roles), keys))

\* ------------------------------------------------------------ confirmation
\* A line read from standard input: a sequence of characters.
IsWhitespace(c) == c \in {" ", "\n", "\t"}

RECURSIVE trim_start(_)
trim_start(str) ==
    IF str # <<>> /\ IsWhitespace(Head(str)) THEN trim_start(Tail(str)) ELSE str

RECURSIVE trim_end(_)
trim_end(str) ==
    IF str # <<>> /\ IsWhitespace(str[Len(str)])
    THEN trim_end(SubSeq(str, 1, Len(str) - 1)) ELSE str

\* str::trim
trim(str) == trim_end(trim_start(str))

\* str::to_lowercase, on the letters that occur in the explored lines.
to_lowercase(str) ==
    [i \in DOMAIN str |-> IF str[i] = "Y" THEN "y"
                          ELSE IF str[i] = "N" THEN "n" ELSE str[i]]

\* prompt_for_confirmation(yes, config): "ok", "NotFound" or "cancelled";
\* exists tells whether the config path exists, input is the line read.
prompt_for_confirmation(exists, yes, input) ==
    IF ~exists THEN "NotFound"
    ELSE IF yes THEN "ok"
    ELSE IF to_lowercase(trim(input)) # <<"y">> \/ ~(trim(input) = <<>>)
         THEN "cancelled"
         ELSE "ok"

\* ------------------------------------------------------------------ state
VARIABLES
    pc,        \* position of the process: "main", "loop", "single", "converged",
               \* "single_done", "didNotConverge", "panicked", "exit_err", "api"
    command,   \* behaviour of the traced command ("any" or "needscap")
    capable,   \* the Capable prober: previous_caps, caps, ran, failed
    policy,    \* the Policy held by main / fail_then_add_loop
    first,     \* fail_then_add_loop: first
    looping,   \* fail_then_add_loop: looping
    proc,      \* credentials of the driving process: uid, gid, groups
    sys,       \* the OS-level stores (accounts, ACLs, D-Bus, polkit)
    hist,      \* history of the discovery session (observation only)
    calls,     \* number of backend calls made (backend specification)
    last,      \* the last backend call and its result (observation only)
    rt,        \* enforce/remove round-trip tracker (observation only)
    conf       \* the role store file named by --config: Option<SConfig>

vars == <<pc, command, capable, policy, first, looping, proc, sys, hist,
          calls, last, rt, conf>>

\* The identity of the discovery session (get_username_* of the command).
Username == "gsr_aa"

\* The system before the tool runs: no managed account, no ACL entry, no
\* D-Bus policy file, a system.conf without the managed includedir; the
\* polkit document is as given.
FreshSys(present, polkit) ==
    [users       |-> [n \in Names |-> {}],
     acl         |-> [f \in Paths |-> [u \in SysUids |-> {}]],
     present     |-> present,
     dbus_files  |-> [n \in Names |-> {}],
     system_conf |-> {0},
     polkit      |-> polkit,
     rules_js    |-> FALSE]

NoDoc == [exists |-> FALSE, doc |-> EmptyMap]
EmptyDoc == [exists |-> TRUE, doc |-> EmptyMap]
GrantDoc == [exists |-> TRUE, doc |-> [u \in {"gsr_aa"} |-> {"org.d1"}]]

PresentSets == {Paths, {"/etc/app.conf"}}

NoHist ==
    [nprobes |-> 0, allFailed |-> TRUE, monotone |-> TRUE,
     escalated |-> FALSE, priorFailed |-> FALSE,
     loopingAt |-> 0, wasFirst |-> FALSE, stable |-> FALSE, enforced |-> {},
     startProc |-> {}, panic |-> "",
     flags |-> {}, report |-> {}, reported |-> {}, ops |-> <<>>,
     enforcedAt |-> {}]

NoLast == [op |-> "none", user |-> "", actions |-> {}, status |-> "", value |-> FALSE]
NoRt == [stage |-> "none", user |-> "", uid |-> {}, policy |-> PolicyDefault,
         pre |-> {}, again |-> {}, order |-> <<>>, before |-> {}]

\* No role store is involved (Generate without --config).
NoConf == {}

Init ==
    /\ pc = "main"
    /\ command \in {"any", "needscap"}
    /\ capable = Capable_new(TRUE, Caps)
    /\ policy = PolicyDefault
    /\ first = TRUE
    /\ looping = 0
    /\ \E u \in ProcUids : proc = [uid |-> u, gid |-> u, groups |-> <<u>>]
    /\ \E pr \in PresentSets : sys = FreshSys(pr, NoDoc)
    /\ hist = NoHist
    /\ calls = 0
    /\ last = NoLast
    /\ rt = NoRt
    /\ conf = NoConf

\* ------------------------------------------------------------------- main
\* main, Commands::Generate up to the choice of mode: parse the password
\* policy, build the prober, then loop (fail_then_add && !no_loop) or probe
\* once.
\* Mutant: --no-loop is ignored.
looping_mode_ignoring_no_loop(fail_then_add, no_loop) == fail_then_add

\* if fail_then_add && !no_loop { fail_then_add_loop(..) } else { capable.run() }
looping_mode(fail_then_add, no_loop) == fail_then_add /\ ~no_loop

MainGenerate(fail_then_add, no_loop, password_policy) ==
    /\ pc = "main"
    /\ LET auth == parse_sauthentication(password_policy)
       IN  IF auth = {}
           THEN /\ pc' = "exit_err"
                /\ capable' = Capable_new(fail_then_add, Caps)
                /\ UNCHANGED policy
           ELSE /\ pc' = IF looping_mode(fail_then_add, no_loop)
                          THEN "loop" ELSE "single"
                /\ capable' = Capable_new(fail_then_add, Caps)
                /\ policy' = [PolicyDefault EXCEPT
                                !.password_prompt = CHOOSE a \in auth : TRUE]
    /\ hist' = [hist EXCEPT !.startProc = {proc},
                            !.flags = {[fail_then_add |-> fail_then_add,
                                        no_loop |-> no_loop]}]
    /\ UNCHANGED <<command, first, looping, proc, sys, calls, last, rt, conf>>

\* The history after one more probe.
Saturate(n) == IF n < MaxProbes THEN n + 1 ELSE MaxProbes

\* --------------------------------------------------- fail_then_add_loop
\* Mutant: the failed flag is read inverted.
loop_continues_inverted(cap) == ~has_ran(cap) \/ ~is_failed(cap)

\* while !capable.has_ran() || capable.is_failed()
loop_continues(cap) == ~has_ran(cap) \/ is_failed(cap)

\* Mutant: every probe is escalated.
should_escalate_always(lp) == lp >= 0

\* Mutant: escalation one stable probe too late.
should_escalate_late(lp) == lp > 1

\* if looping > 0 { setuid(0); setgid(0); setgroups(&[0]) }
should_escalate(lp) == lp > 0

Escalated == [uid |-> 0, gid |-> 0, groups |-> <<0>>]

\* Mutant: giving up one stable probe too late.
retry_failed_late(lp, cap) == lp > 1 /\ is_failed(cap)

\* if looping > 0 && capable.is_failed()
retry_failed(lp, cap) == lp > 0 /\ is_failed(cap)

\* Mutant: the stable count is never incremented.
next_looping_reset(lp, p, pol) == 0

\* else if p == *policy { looping += 1 } else { looping = 0 }
next_looping(lp, p, pol) == IF p = pol THEN lp + 1 ELSE 0

\* Mutant: the previous policy is revoked in the first iteration too.
remove_previous_always(fst) == TRUE

\* if !first { policy.remove(username).unwrap() }
remove_previous(fst) == ~fst

\* The program state fail_then_add_loop works on; enf is the policy left
\* enforced (Option), ops the apply and remove calls made, in order.
LoopState(p, cap, pol, fst, lp, pr, s, enf, ops) ==
    [pc |-> p, capable |-> cap, policy |-> pol, first |-> fst, looping |-> lp,
     proc |-> pr, sys |-> s, enforced |-> enf, ops |-> ops]

\* A call the loop makes on the policy pol: "apply" or "remove".
PolicyCall(op, pol) == [op |-> op, policy |-> pol]

\* if capable.is_failed() { policy.apply(username, &mut capable).unwrap() }
\* first = false;   (app is the result of the apply, if one was made)
loop_applied(app, p, lp2, pr1, ops) ==
    IF app.status # "ok"
    THEN LoopState("panicked", app.capable, p, FALSE, lp2, pr1, app.sys, {}, ops)
    ELSE LoopState("loop", app.capable, p, FALSE, lp2, pr1, app.sys,
                   IF is_failed(app.capable) THEN {p} ELSE {}, ops)

\* if !first { policy.remove(username).unwrap() }  *policy = p;  (rem is the
\* result of the remove, if one was made) and then the apply.
loop_adopt(rem, cap1, p, pol, fst, lp2, pr1, o2, ops) ==
    IF rem.status # "ok"
    THEN LoopState("panicked", cap1, pol, fst, lp2, pr1, rem.sys, {}, ops)
    ELSE loop_applied(IF is_failed(cap1)
                      THEN Policy_apply(rem.sys, cap1, Username, p, o2)
                      ELSE [status |-> "ok", sys |-> rem.sys, capable |-> cap1],
                      p, lp2, pr1,
                      IF is_failed(cap1)
                      THEN Append(ops, PolicyCall("apply", p)) ELSE ops)

\* The branch taken when a retry failed: policy.remove(username).unwrap(),
\* then return Err.
loop_give_up(rem, cap1, pol, fst, lp, pr1, ops) ==
    IF rem.status # "ok"
    THEN LoopState("panicked", cap1, pol, fst, lp, pr1, rem.sys, {}, ops)
    ELSE LoopState("didNotConverge", cap1, pol, fst, lp, pr1, rem.sys, {}, ops)

\* The loop body after capable.run() returned the policy run.policy.
loop_after_run(run, pol, fst, lp, pr1, s, o1, o2) ==
    IF retry_failed(lp, run.capable)
    THEN loop_give_up(Policy_remove(s, Username, pol, o1),
                      run.capable, pol, fst, lp, pr1,
                      <<PolicyCall("remove", pol)>>)
    ELSE loop_adopt(IF remove_previous(fst) THEN Policy_remove(s, Username, pol, o1)
                    ELSE Result("ok", s),
                    run.capable, run.policy, pol, fst,
                    next_looping(lp, run.policy, pol), pr1, o2,
                    IF remove_previous(fst)
                    THEN <<PolicyCall("remove", pol)>> ELSE <<>>)

\* The credentials the probe of this iteration runs with.
probe_creds(lp, pr0) == IF should_escalate(lp) THEN Escalated ELSE pr0

\* One iteration of the loop body when the scratch file parses.  o1 is the
\* order in which remove_policy walks policy.files, o2 the order in which
\* enforce_policy walks the files of the new policy.  The result gives the
\* next value of every variable of the function and of the stores, and the
\* policy left enforced for the identity by this iteration (Option).
loop_body(cap0, pol, fst, lp, pr0, s, exit, report, o1, o2) ==
    loop_after_run(Capable_run(cap0, probe_creds(lp, pr0), exit, report),
                   pol, fst, lp, probe_creds(lp, pr0), s, o1, o2)

LoopIterate(exit, report, o1, o2) ==
    /\ pc = "loop"
    /\ loop_continues(capable)
    /\ o1 \in Orders(DOMAIN policy.files)
    /\ o2 \in Orders(DOMAIN report.files)
    /\ TracerMay(command, capable.caps, exit, report)
    /\ \E n \in {loop_body(capable, policy, first, looping, proc, sys,
                           exit, report, o1, o2)} :
           /\ pc' = n.pc
           /\ capable' = n.capable
           /\ policy' = n.policy
           /\ first' = n.first
           /\ looping' = n.looping
           /\ proc' = n.proc
           /\ sys' = n.sys
           /\ hist' = [nprobes     |-> Saturate(hist.nprobes),
                       allFailed   |-> hist.allFailed /\ exit # 0,
                       monotone    |-> /\ hist.monotone
                                       /\ \/ first
                                          \/ report = Unstamped(policy)
                                          \/ /\ ReqLeq(policy, report)
                                             /\ ~ReqLeq(report, policy),
                       escalated   |-> should_escalate(looping),
                       priorFailed |-> hist.nprobes > 0 /\ capable.failed,
                       loopingAt   |-> looping,
                       wasFirst    |-> first,
                       stable      |-> Stamp(report, n.proc) = policy,
                       enforced    |-> n.enforced,
                       startProc   |-> hist.startProc,
                       panic       |-> IF n.pc = "panicked" THEN "backend" ELSE "",
                       flags       |-> hist.flags,
                       ops         |-> n.ops,
                       enforcedAt  |-> hist.enforced,
                       report      |-> {[exit |-> exit, report |-> report]},
                       reported    |-> hist.reported \cup
                                       (IF exit # 0
                                        THEN Range(report.capabilities)
                                        ELSE {})]
    /\ UNCHANGED <<command, calls, last, rt, conf>>

\* A probe whose scratch file is missing or malformed: capable.run().unwrap()
\* panics, after the escalation of that iteration if any.
LoopTraceInvalid(exit) ==
    /\ pc = "loop"
    /\ loop_continues(capable)
    /\ pc' = "panicked"
    /\ proc' = IF should_escalate(looping) THEN Escalated ELSE proc
    /\ capable' = Capable_run_invalid(capable, exit)
    /\ hist' = [hist EXCEPT !.nprobes = Saturate(hist.nprobes),
                            !.allFailed = hist.allFailed /\ exit # 0,
                            !.escalated = should_escalate(looping),
                            !.priorFailed = hist.nprobes > 0 /\ capable.failed,
                            !.loopingAt = looping,
                            !.wasFirst = first,
                            !.stable = FALSE,
                            !.ops = <<>>,
                            !.enforcedAt = hist.enforced,
                            !.panic = "trace"]
    /\ UNCHANGED <<command, policy, first, looping, sys, calls, last, rt, conf>>

\* The loop condition is false: fail_then_add_loop returns Ok(()).
LoopReturn ==
    /\ pc = "loop"
    /\ ~loop_continues(capable)
    /\ pc' = "converged"
    /\ UNCHANGED <<command, capable, policy, first, looping, proc, sys, hist,
                   calls, last, rt, conf>>

\* main, the non-looping mode: policy = capable.run().unwrap().
SingleProbe(exit, report) ==
    /\ pc = "single"
    /\ TracerMay(command, capable.caps, exit, report)
    /\ LET run == Capable_run(capable, proc, exit, report)
       IN  /\ capable' = run.capable
           /\ policy' = run.policy
    /\ pc' = "single_done"
    /\ hist' = [hist EXCEPT !.nprobes = Saturate(hist.nprobes),
                            !.allFailed = hist.allFailed /\ exit # 0,
                            !.report = {[exit |-> exit, report |-> report]}]
    /\ UNCHANGED <<command, first, looping, proc, sys, calls, last, rt, conf>>

SingleTraceInvalid(exit) ==
    /\ pc = "single"
    /\ pc' = "panicked"
    /\ capable' = Capable_run_invalid(capable, exit)
    /\ hist' = [hist EXCEPT !.nprobes = Saturate(hist.nprobes),
                            !.allFailed = hist.allFailed /\ exit # 0,
                            !.panic = "trace"]
    /\ UNCHANGED <<command, policy, first, looping, proc, sys, calls, last, rt, conf>>

ExitCodes == {0, 1}

Next ==
    \/ \E fta \in BOOLEAN, nl \in BOOLEAN, pw \in {"skip", "perform", "never"} :
         MainGenerate(fta, nl, pw)
    \/ \E exit \in ExitCodes, report \in Reports, o1 \in FileOrders, o2 \in FileOrders :
         LoopIterate(exit, report, o1, o2)
    \/ \E exit \in ExitCodes : LoopTraceInvalid(exit)
    \/ LoopReturn
    \/ \E exit \in ExitCodes, report \in Reports : SingleProbe(exit, report)
    \/ \E exit \in ExitCodes : SingleTraceInvalid(exit)

Spec == Init /\ [][Next]_vars

\* A running process takes its next step: the loop is sequential code.
FairSpec == Spec /\ WF_vars(Next)

\* ------------------------------------------------- the backends, directly
\* The calls of the deploy module made one at a time on a system that may
\* already hold a polkit document: enforce_policy, remove_policy, the polkit
\* worker's add_policy / del_policy / check_policy, and the CLI check.
Call(op, user, actions, status, value) ==
    [op |-> op, user |-> user, actions |-> actions, status |-> status, value |-> value]

\* What enforce_policy and remove_policy are about for an identity whose
\* account has uid `uid` (Option) and a policy: the uid's ACL entry on each
\* path of policy.files, the presence of the identity's D-Bus policy file,
\* and the identity's entry in the polkit document.
View(s, uid, user, pol) ==
    [acl    |-> [f \in DOMAIN pol.files |->
                   UNION {s.acl[f][u] : u \in uid}],
     dbus   |-> s.dbus_files[user] # {},
     polkit |-> IF user \in DOMAIN s.polkit.doc THEN {s.polkit.doc[user]} ELSE {}]

\* The view of an identity that holds nothing.
CleanView(pol) ==
    [acl |-> [f \in DOMAIN pol.files |-> {}], dbus |-> FALSE, polkit |-> {}]

\* The ACL, D-Bus and polkit stores.
Stores(s) == [acl |-> s.acl, dbus_files |-> s.dbus_files, polkit |-> s.polkit]

BackendInit ==
    /\ pc = "api"
    /\ command = "any"
    /\ capable = Capable_new(TRUE, Caps)
    /\ policy = PolicyDefault
    /\ first = TRUE
    /\ looping = 0
    /\ proc = Escalated
    /\ \E pr \in PresentSets, pk \in {NoDoc, EmptyDoc, GrantDoc} :
          sys = FreshSys(pr, pk)
    /\ hist = NoHist
    /\ calls = 0
    /\ last = NoLast
    /\ rt = NoRt
    /\ conf = NoConf

Unused == <<pc, command, capable, policy, first, looping, proc, hist, conf>>

ApiEnforce(user, pol, order) ==
    /\ calls < MaxCalls
    /\ order \in Orders(DOMAIN pol.files)
    /\ \E r \in {enforce_policy(sys, user, pol, order)} :
         /\ sys' = r.sys
         /\ last' = Call("enforce_policy", user, Range(pol.dbus), r.status, FALSE)
         /\ rt' = IF r.status = "ok"
                  THEN [stage |-> "enforced", user |-> user,
                        uid |-> r.sys.users[user], policy |-> pol,
                        pre |-> {View(sys, r.sys.users[user], user, pol)},
                        again |-> {}, order |-> order, before |-> {sys}]
                  ELSE [NoRt EXCEPT !.stage = "enforce_failed", !.user = user,
                                    !.policy = pol, !.order = order,
                                    !.before = {sys}]
    /\ calls' = calls + 1
    /\ UNCHANGED Unused

ApiRemove(user, pol, order) ==
    /\ calls < MaxCalls
    /\ order \in Orders(DOMAIN pol.files)
    /\ \E r \in {remove_policy(sys, user, pol, order)} :
         /\ sys' = r.sys
         /\ last' = Call("remove_policy", user, {}, r.status, FALSE)
         /\ rt' = IF /\ r.status = "ok"
                     /\ rt.stage = "enforced"
                     /\ rt.user = user
                     /\ rt.policy = pol
                  THEN [rt EXCEPT !.stage = "removed"]
                  ELSE IF /\ rt.stage = "removed"
                          /\ rt.user = user
                          /\ rt.policy = pol
                  THEN [rt EXCEPT !.stage = "removed_again",
                                  !.again = {[status |-> r.status,
                                              unchanged |-> Stores(r.sys) = Stores(sys)]}]
                  ELSE NoRt
    /\ calls' = calls + 1
    /\ UNCHANGED Unused

ApiPolkitAdd(user, perms) ==
    /\ calls < MaxCalls
    /\ \E r \in {polkit_add_policy(sys, user, perms)} :
         /\ sys' = r.sys
         /\ last' = Call("add_policy", user, Range(perms), r.status, FALSE)
    /\ rt' = NoRt
    /\ calls' = calls + 1
    /\ UNCHANGED Unused

ApiPolkitDel(user) ==
    /\ calls < MaxCalls
    /\ \E r \in {polkit_del_policy(sys, user)} :
         /\ sys' = r.sys
         /\ last' = Call("del_policy", user, {}, r.status, FALSE)
    /\ rt' = NoRt
    /\ calls' = calls + 1
    /\ UNCHANGED Unused

ApiPolkitCheck(user, action) ==
    /\ calls < MaxCalls
    /\ \E r \in {polkit_check_policy(sys, user, action)} :
         last' = Call("check_policy", user, {action}, r.status, r.value)
    /\ calls' = calls + 1
    /\ UNCHANGED <<sys, rt>>
    /\ UNCHANGED Unused

\* main, Commands::Polkit { user, action }: the process exits with success
\* ("ok"), PermissionDenied ("denied") or another error ("err").
CliPolkit(user, action) ==
    /\ calls < MaxCalls
    /\ last' = Call("cli_polkit", user, {action}, main_polkit(sys, user, action), FALSE)
    /\ calls' = calls + 1
    /\ UNCHANGED <<sys, rt>>
    /\ UNCHANGED Unused

BackendNext ==
    \/ \E user \in Names, pol \in Reports, order \in FileOrders :
         ApiEnforce(user, pol, order)
    \/ \E user \in Names, pol \in Reports, order \in FileOrders :
         ApiRemove(user, pol, order)
    \/ \E user \in Names, perms \in {<<>>, <<"org.d1">>} : ApiPolkitAdd(user, perms)
    \/ \E user \in Names : ApiPolkitDel(user)
    \/ \E user \in Strs, action \in Strs : ApiPolkitCheck(user, action)
    \/ \E user \in Strs, action \in Strs : CliPolkit(user, action)

BackendSpec == BackendInit /\ [][BackendNext]_vars

\* ------------------------------------------------ the pure operations
\* The value-level operations evaluated once on inputs drawn from bounded
\* sets: the policy merge, the Access merge, the identity derivation and
\* Capable::add_caps.  `last` records the inputs and the results.
ConfW == [x \in {"/etc/app.conf"} |-> AccessW]

\* Policies to merge: every combination of a capability list, a files map
\* and a setuid, and two policies that also carry groups, destinations,
\* environment variables and a password policy.
MergePolicies ==
    {MkPolicy(su, {}, caps, files, <<>>, EmptyMap, "perform") :
        su \in {{}, {0}},
        caps \in {<<>>, <<"CAP_NET_BIND_SERVICE">>, <<"CAP_DAC_OVERRIDE">>},
        files \in {EmptyMap, ConfR, ConfW, BothFiles}}
    \cup {MkPolicy({1000}, {<<1000>>}, <<>>, EmptyMap, <<"org.d1">>,
                   [x \in {"LANG"} |-> "C"], "skip"),
          MkPolicy({}, {<<0>>}, <<"CAP_NET_BIND_SERVICE">>, ConfR, <<"org.d1">>,
                   [x \in {"LANG", "TERM"} |-> "fr"], "perform")}

\* Strings a playbook, a task or a command token may be.
Tokens == {<<"a">>, <<"a", "b">>, <<"b", "a">>}
CommandTokens == {<<"a">>, <<"b">>, <<"a", "b">>}

\* What main derives the username from: playbook and task (Options) and the
\* command.
UsernameInputs ==
    [playbook : {{}} \cup {{t} : t \in Tokens},
     task     : {{}} \cup {{t} : t \in Tokens},
     command  : {<<t>> : t \in CommandTokens}
                \cup {<<t, u>> : t \in CommandTokens, u \in CommandTokens}]

\* Texts handed to the Access parser: every string of at most MaxText
\* characters over the three letters, a lower-case letter and another one.
MaxText == 3
AccessChars == {"R", "W", "X", "r", "Z"}
AccessTexts == UNION {[1..n -> AccessChars] : n \in 0..MaxText}

\* The evaluations to make: an operation and its inputs.
PureCalls ==
    [op : {"bitor"}, a : MergePolicies, b : MergePolicies]
    \cup [op : {"bitor3"}, a : MergePolicies, b : MergePolicies, c : MergePolicies]
    \cup [op : {"access_or"}, x : AccessAll, y : AccessAll]
    \cup [op : {"username"}, i : UsernameInputs, j : UsernameInputs]
    \cup [op : {"add_caps"}, caps : SUBSET Caps, delta : SUBSET Caps,
          bounding : SUBSET Caps]
    \cup [op : {"access_text"}, a : AccessAll, text : AccessTexts]

PureInit ==
    /\ pc = "pure"
    /\ command = "any"
    /\ capable = Capable_new(TRUE, Caps)
    /\ policy = PolicyDefault
    /\ first = TRUE
    /\ looping = 0
    /\ proc = Escalated
    /\ sys = FreshSys(Paths, NoDoc)
    /\ hist = NoHist
    /\ calls = 0
    /\ last \in PureCalls
    /\ rt = NoRt
    /\ conf = NoConf

\* The evaluation of `op` is made.
PureDone(op) ==
    /\ pc = "pure"
    /\ last.op = op
    /\ pc' = "pure_done"
    /\ UNCHANGED <<command, capable, policy, first, looping, proc, sys, hist,
                   calls, rt, conf>>

\* a | b, b | a, and a |= b.
MergePair ==
    /\ PureDone("bitor")
    /\ last' = [op |-> "bitor", a |-> last.a, b |-> last.b,
                ab |-> Policy_bitor(last.a, last.b),
                ba |-> Policy_bitor(last.b, last.a),
                assigned |-> Policy_bitor_assign(last.a, last.b)]

\* (a | b) | c and a | (b | c).
MergeTriple ==
    /\ PureDone("bitor3")
    /\ last' = [op |-> "bitor3", a |-> last.a, b |-> last.b, c |-> last.c,
                ab_c |-> Policy_bitor(Policy_bitor(last.a, last.b), last.c),
                a_bc |-> Policy_bitor(last.a, Policy_bitor(last.b, last.c))]

\* x | x and x | y on Access.
MergeAccess ==
    /\ PureDone("access_or")
    /\ last' = [op |-> "access_or", x |-> last.x, y |-> last.y,
                xx |-> AccessOr(last.x, last.x), xy |-> AccessOr(last.x, last.y)]

\* The usernames main derives for two Generate commands.
DeriveUsernames ==
    /\ PureDone("username")
    /\ last' = [op |-> "username", i |-> last.i, j |-> last.j,
                ui |-> main_username(last.i.playbook, last.i.task, last.i.command),
                uj |-> main_username(last.j.playbook, last.j.task, last.j.command)]

\* The prober of a process whose bounding set is `bounding`, with the
\* attempted set `caps`.
CapableWith(caps, bounding) == [Capable_new(TRUE, bounding) EXCEPT !.caps = caps]

\* capable.add_caps(delta) in a process whose bounding set is `bounding`.
\* add_caps returns (), so the call has no way to report an error.
CallAddCaps ==
    /\ PureDone("add_caps")
    /\ last' = [op |-> "add_caps", bounding |-> last.bounding, delta |-> last.delta,
                before |-> CapableWith(last.caps, last.bounding),
                after |-> add_caps(CapableWith(last.caps, last.bounding), last.delta),
                status |-> "ok"]

\* a.to_string(), a.to_string().parse::<Access>() and text.parse::<Access>().
AccessText ==
    /\ PureDone("access_text")
    /\ last' = [op |-> "access_text", a |-> last.a, text |-> last.text,
                shown |-> AccessDisplay(last.a),
                reparsed |-> Access_from_str(AccessDisplay(last.a)),
                parsed |-> Access_from_str(last.text)]

PureNext ==
    \/ MergePair
    \/ MergeTriple
    \/ MergeAccess
    \/ DeriveUsernames
    \/ CallAddCaps
    \/ AccessText

PureSpec == PureInit /\ [][PureNext]_vars

\* ------------------------------------------- role store specification
\* The commands that read or write the role store: Generate's output_policy
\* (Mode::Auto with --config), Deploy and Undeploy, run in any order on a
\* system with or without the account of the discovered identity and with or
\* without a polkit document.
MaxCmds == 2

\* The accounts deploy and undeploy may look up.
RoleNames == {Username, "web"}
TaskNames == {Username, "t1"}
DeployNames ==
    Names \cup {format_role_task(r, t) : r \in RoleNames, t \in TaskNames}

\* An identity that no explored store names, and the D-Bus policy file it
\* may have in the managed folder.
OtherIdentity == "rar_bb"

DeploySys(present, polkit, account, other) ==
    [FreshSys(present, polkit) EXCEPT
       !.users = [n \in DeployNames |-> IF n = Username THEN account ELSE {}],
       !.dbus_files = [n \in DeployNames |->
                         IF n = OtherIdentity THEN other ELSE {}]]

\* A task written by hand in the shape deploy_dbus reads (an array of arrays
\* of strings), and a task of another role without extra fields.
HandTask ==
    STask("t1", {ActorName(Username)}, {},
          {JObject([f \in {"/etc/app.conf"} |-> JString(<<"R">>)])},
          {JArray(<<JArray(<<JString("org.d1")>>)>>)}, {})
PlainTask == STask("t1", {ActorName("alice")}, {}, {}, {}, {})

\* The role stores the commands start from: no file, no role, one role of
\* the identity, one role of another name.
DeployStores ==
    {{}, {<<>>}, {<<SRole(Username, <<HandTask>>)>>},
     {<<SRole("web", <<PlainTask>>)>>}}

\* The policies discovery hands to output_policy, and the --task option.
DiscoveredPolicies ==
    {Report(<<>>, EmptyMap, <<>>),
     Report(<<"CAP_NET_BIND_SERVICE">>, ConfR, <<>>),
     Report(<<"CAP_NET_BIND_SERVICE", "CAP_DAC_OVERRIDE">>, BothFiles, <<"org.d1">>)}
TaskOptions == {{}, {"t1"}}

\* The lines the user may type at the prompt (<<>>: end of input).
InputLines ==
    {<<"y", "\n">>, <<"Y", "\n">>, <<"\n">>, <<>>, <<"n", "\n">>,
     <<" ", "y", " ", "\n">>, <<"y", "e", "s", "\n">>}

DeployInit ==
    /\ pc = "cli"
    /\ command = "any"
    /\ capable = Capable_new(TRUE, Caps)
    /\ policy = PolicyDefault
    /\ first = TRUE
    /\ looping = 0
    /\ proc = Escalated
    /\ \E pr \in PresentSets, pk \in {NoDoc, EmptyDoc}, ac \in {{}, {MinOf(SysUids)}},
          ot \in {{}, {<<"org.d1">>}} :
          sys = DeploySys(pr, pk, ac, ot)
    /\ hist = NoHist
    /\ calls = 0
    /\ last = NoLast
    /\ rt = NoRt
    /\ conf \in DeployStores

DeployUnused == <<pc, command, capable, policy, first, looping, proc, hist>>

\* The result of a command of the role store: the command, its inputs and
\* its exit ("ok", "err", "panic", "NotFound", "cancelled").
CmdResult(op, yes, input, exists, status) ==
    [op |-> op, yes |-> yes, input |-> input, exists |-> exists, status |-> status]

\* output_policy(Mode::Auto, Some(config), task, username, policy): a missing
\* store file is an error of get_settings.
OutputPolicy(pol, task) ==
    /\ calls < MaxCmds
    /\ IF conf = {}
       THEN /\ last' = [op |-> "output_policy", task |-> {}, status |-> "err"]
            /\ UNCHANGED conf
       ELSE /\ conf' = {merge_task(CHOOSE c \in conf : TRUE, Username,
                                    output_task(pol, Username, task))}
            /\ last' = [op |-> "output_policy",
                        task |-> {output_task(pol, Username, task)},
                        status |-> "ok"]
    /\ rt' = NoRt
    /\ calls' = calls + 1
    /\ UNCHANGED sys
    /\ UNCHANGED DeployUnused

\* main, Commands::Deploy { yes, config }.
CmdDeploy(yes, input, keys) ==
    /\ calls < MaxCmds
    /\ IF prompt_for_confirmation(conf # {}, yes, input) # "ok"
       THEN /\ last' = CmdResult("deploy", yes, input, conf # {},
                                 prompt_for_confirmation(conf # {}, yes, input))
            /\ rt' = NoRt
            /\ UNCHANGED sys
       ELSE \E r \in {setup_role_based_access(sys, CHOOSE c \in conf : TRUE, keys)} :
               /\ sys' = r.sys
               /\ last' = CmdResult("deploy", yes, input, TRUE, r.status)
               /\ rt' = [NoRt EXCEPT !.stage = "deployed", !.before = {sys},
                                     !.order = keys]
    /\ calls' = calls + 1
    /\ UNCHANGED conf
    /\ UNCHANGED DeployUnused

\* main, Commands::Undeploy { yes, config }.
CmdUndeploy(yes, input, keys) ==
    /\ calls < MaxCmds
    /\ IF prompt_for_confirmation(conf # {}, yes, input) # "ok"
       THEN /\ last' = CmdResult("undeploy", yes, input, conf # {},
                                 prompt_for_confirmation(conf # {}, yes, input))
            /\ rt' = NoRt
            /\ UNCHANGED sys
       ELSE \E r \in {remove_role_based_access(sys, CHOOSE c \in conf : TRUE, keys)} :
               /\ sys' = r.sys
               /\ last' = CmdResult("undeploy", yes, input, TRUE, r.status)
               /\ rt' = IF rt.stage = "deployed" /\ last.status = "ok"
                        THEN [rt EXCEPT !.stage = "undeployed"]
                        ELSE NoRt
    /\ calls' = calls + 1
    /\ UNCHANGED conf
    /\ UNCHANGED DeployUnused

DeployNext ==
    \/ \E pol \in DiscoveredPolicies, task \in TaskOptions : OutputPolicy(pol, task)
    \/ \E yes \in BOOLEAN, input \in InputLines, keys \in Orders(Paths) :
         CmdDeploy(yes, input, keys)
    \/ \E yes \in BOOLEAN, input \in InputLines, keys \in Orders(Paths) :
         CmdUndeploy(yes, input, keys)

DeploySpec == DeployInit /\ [][DeployNext]_vars

\* ================================================================ claims
\* The length of the longest chain of reports, each asking strictly more
\* than the one before, that ends in r.
RECURSIVE ChainTo(_)
ChainTo(r) ==
    LET below == {q \in Reports : ReqLeq(q, r) /\ ~ReqLeq(r, q)}
    IN  IF below = {} THEN 1
        ELSE 1 + MinOf({n \in 1..Cardinality(Reports) :
                          \A q \in below : ChainTo(q) <= n})

LongestChain == MinOf({n \in 1..Cardinality(Reports) : \A r \in Reports : ChainTo(r) <= n})

\* Probes a monotone tracer can cause: one per report of a longest chain,
\* one that repeats the last report, and the escalated retry.
ProbeBound == LongestChain + 2

LoopEnded == pc \in {"converged", "didNotConverge"}

\* The process panicked on a failure of its environment: an unreadable
\* scratch file, or a reported path that does not exist.
EnvFault ==
    /\ pc = "panicked"
    /\ \/ hist.panic = "trace"
       \/ \E f \in DOMAIN policy.files : f \notin sys.present

\* Nothing is granted to the identity of the session: no account, no ACL
\* entry, no D-Bus policy file, no polkit entry.
NothingGranted ==
    /\ sys.users[Username] = {}
    /\ \A f \in Paths, u \in SysUids : sys.acl[f][u] = {}
    /\ sys.dbus_files[Username] = {}
    /\ Username \notin DOMAIN sys.polkit.doc

\* C1 (as claimed): whenever every probe exits non-zero, whatever the tracer
\* reports, the loop eventually returns DiscoveryDidNotConverge (or aborts).
C1_AlwaysFailingEnds ==
    (pc = "loop") ~> (pc \in {"didNotConverge", "panicked"} \/ ~hist.allFailed)

\* C1 (amended): once a failing probe has reported the policy accepted from
\* the probe before it, and probes keep exiting non-zero, the loop returns
\* DiscoveryDidNotConverge after the escalated retry (or aborts on a fault).
C1_StableFailureEnds ==
    (pc = "loop" /\ hist.nprobes > 0 /\ capable.failed /\ hist.stable)
       ~> (pc \in {"didNotConverge", "panicked"} \/ ~hist.allFailed)

C1_Witness ==
    pc = "didNotConverge" /\ hist.allFailed /\ hist.escalated /\ hist.nprobes >= 3

\* C2: while every report either repeats the previous one or asks strictly
\* more, the loop makes at most ProbeBound probes, and it ends in Converged
\* or DidNotConverge unless the environment fails.
C2_MonotoneTerminates ==
    /\ [](hist.monotone => hist.nprobes <= ProbeBound)
    /\ (pc = "loop") ~> (LoopEnded \/ ~hist.monotone \/ EnvFault)

C2_Witness ==
    pc = "didNotConverge" /\ hist.monotone /\ hist.nprobes = ProbeBound

\* C3 (as claimed): the loop returns Ok only after a probe that succeeded
\* and whose policy equalled the policy accepted before it.
C3_ConvergedOnlyWhenStable ==
    pc = "converged" => (~capable.failed /\ hist.stable)

\* C3 (amended): the loop returns Ok exactly at the first probe that
\* succeeds, whether or not its policy equals the one accepted before it:
\* Ok is returned only after a successful probe, and no probe is made after
\* a successful one.
C3_ConvergedAtFirstSuccess ==
    /\ pc = "converged" => (capable.ran /\ ~capable.failed)
    /\ hist.nprobes >= 2 => hist.priorFailed

C3_Witness ==
    pc = "converged" /\ ~hist.stable /\ hist.nprobes >= 2

\* C4 (as claimed): a failing probe that is a retry (stable count > 0, or
\* not the first iteration) ends the session with DiscoveryDidNotConverge,
\* nothing being left granted to the identity.
C4_AnyRetryFailureEnds ==
    (/\ hist.nprobes > 0
     /\ pc # "panicked"
     /\ capable.failed
     /\ (hist.loopingAt > 0 \/ ~hist.wasFirst))
       => (pc = "didNotConverge" /\ hist.enforced = {} /\ NothingGranted)

\* C4 (amended): a failing probe ends the session with
\* DiscoveryDidNotConverge exactly when it ran with stable count > 0, and
\* then nothing is left granted to the identity; a failing probe at stable
\* count 0 does not end the session, first iteration or not.
C4_StableRetryFailureEnds ==
    (hist.nprobes > 0 /\ pc # "panicked" /\ capable.failed)
       => /\ (hist.loopingAt > 0) <=> (pc = "didNotConverge")
          /\ pc = "didNotConverge" => (hist.enforced = {} /\ NothingGranted)

C4_Witness ==
    pc = "didNotConverge" /\ hist.loopingAt > 0 /\ policy.files # EmptyMap

\* C5 (as claimed): every probe made after an earlier failed probe runs as
\* uid 0, gid 0, groups {0}, and the first probe is not escalated.
C5_EscalatedAfterAnyFailure ==
    /\ (hist.nprobes > 0 /\ hist.priorFailed) => proc = Escalated
    /\ hist.nprobes = 1 => ~hist.escalated

\* C5 (amended): a probe runs as uid 0, gid 0, groups {0} by the loop's
\* doing exactly when the stable count is > 0 at its iteration; a probe at
\* stable count 0 (the first, and any probe after a failure that changed
\* the policy) runs with the credentials the process started with.
C5_EscalatedWhenStable ==
    hist.nprobes > 0 =>
       /\ hist.loopingAt > 0 => (proc = Escalated /\ hist.priorFailed)
       /\ hist.loopingAt = 0 => hist.startProc = {proc}
       /\ hist.nprobes = 1 => hist.loopingAt = 0

C5_Witness ==
    /\ hist.nprobes >= 3
    /\ hist.loopingAt > 0
    /\ proc = Escalated
    /\ hist.startProc # {Escalated}

\* C6: the scenario command (fails without RequiredCap, succeeds with it),
\* probed from the empty set, is probed at most twice, never ends in
\* DiscoveryDidNotConverge, and converges after exactly two probes on a
\* policy with exactly the capabilities and files it requires.
C6_ScenarioConverges ==
    (command = "needscap" /\ pc \in {"loop", "converged", "didNotConverge"}) =>
       /\ hist.nprobes <= 2
       /\ pc # "didNotConverge"
       /\ (pc = "loop" /\ hist.nprobes = 2) => ~loop_continues(capable)
       /\ pc = "converged" =>
             /\ hist.nprobes = 2
             /\ policy.capabilities = Required.capabilities
             /\ policy.files = Required.files

C6_Witness ==
    command = "needscap" /\ pc = "converged" /\ hist.nprobes = 2

\* The action is in the granted set of the identity in the polkit document.
Granted(s, user, action) ==
    /\ s.polkit.exists
    /\ user \in DOMAIN s.polkit.doc
    /\ action \in s.polkit.doc[user]

\* C7: right after add_policy(identity, actions), check_policy(identity,
\* action) is true for each granted action, whether or not the identity had
\* an entry before; right after del_policy(identity) it is false for every
\* action.
C7_GrantThenQuery ==
    /\ (last.op = "add_policy" /\ last.status = "ok") =>
          \A a \in last.actions :
             polkit_check_policy(sys, last.user, a) = [status |-> "ok", value |-> TRUE]
    /\ (last.op = "del_policy" /\ last.status = "ok") =>
          \A a \in Strs :
             polkit_check_policy(sys, last.user, a) = [status |-> "ok", value |-> FALSE]

\* C8: check_policy for an identity without an entry, or without a polkit
\* document at all, returns Ok(false), never an error.
C8_AbsentIsNotGranted ==
    (/\ last.op = "check_policy"
     /\ (~sys.polkit.exists \/ last.user \notin DOMAIN sys.polkit.doc))
       => (last.status = "ok" /\ last.value = FALSE)

\* C9: the CLI check for (user, action) exits successfully if and only if
\* the action is in the granted set of the user in the polkit document.
C9_CliChecksUserAction ==
    last.op = "cli_polkit" =>
       \A a \in last.actions :
          (last.status = "ok") <=> Granted(sys, last.user, a)

\* C10 (as claimed): enforce_policy followed by remove_policy, for the same
\* identity and policy, leaves the identity's ACL entries on policy.files,
\* its D-Bus policy file and its polkit entry as they were before the grant.
C10_RoundTripRestores ==
    rt.stage = "removed" =>
       \A v \in rt.pre : View(sys, rt.uid, rt.user, rt.policy) = v

\* C10 (amended): enforce_policy followed by remove_policy leaves the
\* identity with no ACL entry on the paths of policy.files, no D-Bus policy
\* file and no polkit entry; that is the state before the grant exactly when
\* the identity held none of these before.
C10_RoundTripLeavesNothing ==
    rt.stage = "removed" =>
       /\ View(sys, rt.uid, rt.user, rt.policy) = CleanView(rt.policy)
       /\ \A v \in rt.pre :
            (v = CleanView(rt.policy)) <=> (View(sys, rt.uid, rt.user, rt.policy) = v)

C10_Witness ==
    /\ rt.stage = "removed"
    /\ rt.policy.files = BothFiles
    /\ rt.policy.dbus # <<>>
    /\ rt.pre = {CleanView(rt.policy)}

\* C11: remove_policy called again for an identity and policy whose grants
\* and account a first remove_policy already revoked completes without error
\* and leaves the ACL, D-Bus and polkit stores unchanged.
C11_RevokeRepeatable ==
    rt.stage = "removed_again" =>
       \A a \in rt.again : a.status = "ok" /\ a.unchanged

\* The two lists hold the same elements.
SameElements(s, t) == Range(s) = Range(t)

\* C12: the policy merge is commutative under structural equality:
\* a | b == b | a for all policies a and b.
C12_MergeCommutative ==
    (pc = "pure_done" /\ last.op = "bitor") => last.ab = last.ba

\* C13: the policy merge is associative under structural equality:
\* (a | b) | c == a | (b | c) for all policies a, b and c.
C13_MergeAssociative ==
    (pc = "pure_done" /\ last.op = "bitor3") => last.ab_c = last.a_bc

C13_Witness ==
    /\ pc = "pure_done"
    /\ last.op = "bitor3"
    /\ last.a.setuid = {} /\ last.b.setuid # {}
    /\ last.a.capabilities # <<>> /\ last.c.capabilities # <<>>
    /\ last.a.capabilities # last.c.capabilities
    /\ \E k \in DOMAIN last.a.files \cap DOMAIN last.b.files \cap DOMAIN last.c.files :
          /\ last.a.files[k] # last.b.files[k]
          /\ last.b.files[k] # last.c.files[k]
    /\ last.ab_c = last.a_bc

\* The files of a merge of a and b are the per-key join of the two maps.
FilesJoined(a, b, merged) ==
    /\ DOMAIN merged.files = DOMAIN a.files \cup DOMAIN b.files
    /\ \A k \in DOMAIN merged.files :
          merged.files[k] =
             IF k \in DOMAIN a.files /\ k \in DOMAIN b.files
             THEN AccessOr(a.files[k], b.files[k])
             ELSE IF k \in DOMAIN a.files THEN a.files[k] ELSE b.files[k]

\* C14: merging two policies (a | b and a |= b) joins files per key: a path
\* in both maps to the OR of the two Access values, a path in one keeps its
\* Access, and the keys are the union of both key sets.
C14_MergeJoinsFiles ==
    (pc = "pure_done" /\ last.op = "bitor") =>
       /\ FilesJoined(last.a, last.b, last.ab)
       /\ FilesJoined(last.a, last.b, last.assigned)

\* x holds every flag of y.
ContainsBits(x, y) ==
    \A k \in {AccessR, AccessW, AccessX} : Bit(x, k) >= Bit(y, k)

\* C15: the Access merge is idempotent and monotonic: x | x == x, and x | y
\* holds every flag of x and every flag of y.
C15_AccessMergeIdempotentMonotonic ==
    (pc = "pure_done" /\ last.op = "access_or") =>
       /\ last.xx = last.x
       /\ ContainsBits(last.xy, last.x)
       /\ ContainsBits(last.xy, last.y)
       /\ last.xy \in AccessAll

C15_Witness ==
    /\ pc = "pure_done"
    /\ last.op = "access_or"
    /\ last.x = AccessR + AccessX
    /\ last.y = AccessW + AccessX
    /\ last.xy = AccessR + AccessW + AccessX

\* C16: starting from a system.conf without an includedir of the managed
\* folder, after every successful enforce_policy (whose D-Bus step is
\* add_policy then build) the file holds exactly one such element, never
\* more than one at any time, and a grant made when the element is present
\* leaves the file as it was.
C16_IncludedExactlyOnce ==
    [][/\ \A n \in sys'.system_conf : n <= 1
       /\ (last'.op = "enforce_policy" /\ last'.status = "ok")
             => sys'.system_conf = {1}
       /\ (sys.system_conf = {1} /\ last'.op = "enforce_policy")
             => sys'.system_conf = sys.system_conf]_vars

C16_Witness ==
    /\ last.op = "enforce_policy"
    /\ last.status = "ok"
    /\ calls >= 2
    /\ \A n \in Names : sys.dbus_files[n] # {}
    /\ sys.system_conf = {1}

\* The Generate command takes the playbook scheme.
UsesPlaybook(i) == i.playbook # {} /\ i.task # {}

\* C17: two different (playbook, task) pairs, and two different command
\* token sequences, get different identities, the hash being collision-free
\* on distinct byte strings.
C17_DistinctInputsDistinctIdentities ==
    (pc = "pure_done" /\ last.op = "username") =>
       /\ (/\ UsesPlaybook(last.i) /\ UsesPlaybook(last.j)
           /\ <<last.i.playbook, last.i.task>> # <<last.j.playbook, last.j.task>>)
             => last.ui # last.uj
       /\ (/\ ~UsesPlaybook(last.i) /\ ~UsesPlaybook(last.j)
           /\ last.i.command # last.j.command)
             => last.ui # last.uj

\* C18: the identity is a function of (playbook, task) in the playbook
\* scheme and of the command tokens in the raw-command scheme; the playbook
\* scheme (prefix rar_) is used exactly when both a playbook and a task are
\* given, the raw-command scheme (prefix gsr_) otherwise; identities of the
\* two schemes are never equal.
C18_DeterministicSchemeDisjoint ==
    (pc = "pure_done" /\ last.op = "username") =>
       /\ (last.ui[1] = "rar_") <=> UsesPlaybook(last.i)
       /\ (last.ui[1] = "gsr_") <=> ~UsesPlaybook(last.i)
       /\ (/\ UsesPlaybook(last.i) /\ UsesPlaybook(last.j)
           /\ last.i.playbook = last.j.playbook /\ last.i.task = last.j.task)
             => last.ui = last.uj
       /\ (/\ ~UsesPlaybook(last.i) /\ ~UsesPlaybook(last.j)
           /\ last.i.command = last.j.command)
             => last.ui = last.uj
       /\ (UsesPlaybook(last.i) # UsesPlaybook(last.j)) => last.ui # last.uj

C18_Witness ==
    /\ pc = "pure_done"
    /\ last.op = "username"
    /\ UsesPlaybook(last.i)
    /\ last.j.playbook # {} /\ last.j.task = {}
    /\ last.i.playbook = {<<"a">>} /\ last.i.task = {<<"b", "a">>}
    /\ last.j.command = <<<<"a", "b">>, <<"a">>>>
    /\ last.ui[2] = last.uj[2]
    /\ last.ui # last.uj

\* C19: add_caps(delta) signals a fatal error and leaves the attempted set
\* as it was when delta holds a capability outside the bounding set of the
\* process, and otherwise makes the attempted set its union with delta.
C19_AddCapsChecksBounding ==
    (pc = "pure_done" /\ last.op = "add_caps") =>
       IF last.delta \subseteq last.bounding
       THEN last.status = "ok" /\ last.after.caps = last.before.caps \cup last.delta
       ELSE last.status # "ok" /\ last.after.caps = last.before.caps

\* C20: a probe whose scratch file is missing or is not valid policy JSON
\* ends discovery fatally whatever the exit status of the tracer: that probe
\* leaves the held policy, the stores and the ran flag as they were, and no
\* step (so no further probe) follows it.
C20_InvalidTraceIsFatal ==
    [][/\ (hist'.panic = "trace" /\ hist.panic # "trace")
             => /\ pc' = "panicked"
                /\ policy' = policy
                /\ sys' = sys
                /\ capable'.ran = capable.ran
                /\ capable'.caps = capable.caps
       /\ hist.panic # "trace"]_vars

C20_Witness ==
    /\ pc = "panicked"
    /\ hist.panic = "trace"
    /\ hist.nprobes >= 2
    /\ capable.ran
    /\ ~capable.failed
    /\ hist.enforced # {}

\* ---------------------------------------------------------------------
\* C21: the non-looping mode (taken unless fail-then-add is set and no_loop
\* is unset) executes exactly one probe and returns the policy that probe
\* reports, stamped with the unchanged credentials, whether or not the probe
\* failed; nothing is escalated, enforced or revoked.
NonLoopingMode ==
    \E f \in hist.flags : ~(f.fail_then_add /\ ~f.no_loop)

C21_NonLoopingProbesOnce ==
    /\ [](NonLoopingMode =>
            /\ pc \in {"single", "single_done", "panicked", "exit_err"}
            /\ sys = FreshSys(sys.present, NoDoc)
            /\ hist.startProc = {proc}
            /\ ~hist.escalated /\ hist.enforced = {}
            /\ hist.nprobes = (IF pc \in {"single", "exit_err"} THEN 0 ELSE 1)
            /\ pc = "single_done" =>
                 \E r \in hist.report :
                    /\ policy = Stamp(r.report, proc)
                    /\ capable.failed = (r.exit # 0))
    /\ [][(pc \in {"single_done", "panicked"}) => UNCHANGED vars]_vars

C21_Witness ==
    /\ pc = "single_done"
    /\ \E f \in hist.flags : f.fail_then_add /\ f.no_loop
    /\ capable.failed
    /\ policy.files # EmptyMap
    /\ proc.uid # 0

\* ---------------------------------------------------------------------
\* C22: deploy and undeploy act on the same identity for each task: when
\* Undeploy runs on the store a successful Deploy has just run on, it
\* completes without error and leaves no account, ACL entry, D-Bus policy
\* file or polkit entry that was not there before the Deploy.
NothingLeftSince(s0) ==
    /\ \A n \in DOMAIN sys.users : sys.users[n] \subseteq s0.users[n]
    /\ \A f \in Paths, u \in SysUids : sys.acl[f][u] \subseteq s0.acl[f][u]
    /\ \A n \in DOMAIN sys.dbus_files : sys.dbus_files[n] \subseteq s0.dbus_files[n]
    /\ DOMAIN sys.polkit.doc \subseteq DOMAIN s0.polkit.doc

C22_UndeployRevokesDeploy ==
    rt.stage = "undeployed" =>
       /\ last.status = "ok"
       /\ \A s0 \in rt.before : NothingLeftSince(s0)

\* ---------------------------------------------------------------------
\* C23: writing a discovered task into the role store never overwrites or
\* duplicates a task: every role and task of the store before is still
\* there unchanged; if the role named by the identity has a task of the same
\* name the store is unchanged, otherwise the task is appended to that role,
\* or to a new role appended to the store.
KeepsExisting(c, c2) ==
    \A i \in DOMAIN c :
       /\ i \in DOMAIN c2
       /\ c2[i].name = c[i].name
       /\ \A k \in DOMAIN c[i].tasks :
             k \in DOMAIN c2[i].tasks /\ c2[i].tasks[k] = c[i].tasks[k]

AddsOnce(c, c2, t) ==
    LET found == {i \in DOMAIN c : c[i].name = Username}
    IN  IF found = {}
        THEN /\ Len(c2) = Len(c) + 1
             /\ c2[Len(c2)] = [name |-> Username, tasks |-> <<t>>]
        ELSE /\ Len(c2) = Len(c)
             /\ \A j \in DOMAIN c : j # MinOf(found) => c2[j] = c[j]
             /\ IF \E k \in DOMAIN c[MinOf(found)].tasks :
                      c[MinOf(found)].tasks[k].name = t.name
                THEN c2 = c
                ELSE /\ Len(c2[MinOf(found)].tasks) = Len(c[MinOf(found)].tasks) + 1
                     /\ c2[MinOf(found)].tasks[Len(c2[MinOf(found)].tasks)] = t

C23_OutputNeverOverwrites ==
    [][(last'.op = "output_policy" /\ last'.status = "ok") =>
         \A c \in conf, c2 \in conf', t \in last'.task :
            KeepsExisting(c, c2) /\ AddsOnce(c, c2, t)]_vars

C23_Witness ==
    /\ last.op = "output_policy"
    /\ last.status = "ok"
    /\ conf = {<<SRole(Username, <<HandTask>>)>>}
    /\ \E t \in last.task : t.name = "t1" /\ t # HandTask

\* ---------------------------------------------------------------------
\* C24: the text form of an access set round-trips: parsing the display of
\* any of the eight values gives the value back, the display holds the
\* letters of the flags that are set in the order R, W, X, parsing a text
\* with any character other than R, W, X fails, and parsing a text over
\* R, W, X gives the set of the letters present.
AccessLetters == <<"R", "W", "X">>

FlagOf(letter) ==
    IF letter = "R" THEN AccessR ELSE IF letter = "W" THEN AccessW ELSE AccessX

LettersValue(S) ==
    (IF "R" \in S THEN AccessR ELSE 0) + (IF "W" \in S THEN AccessW ELSE 0)
  + (IF "X" \in S THEN AccessX ELSE 0)

C24_AccessTextRoundTrip ==
    (pc = "pure_done" /\ last.op = "access_text") =>
       /\ last.reparsed = {last.a}
       /\ last.shown =
             SelectSeq(AccessLetters, LAMBDA c : Bit(last.a, FlagOf(c)) = 1)
       /\ IF Range(last.text) \subseteq Range(AccessLetters)
          THEN last.parsed = {LettersValue(Range(last.text))}
          ELSE last.parsed = {}

C24_Witness ==
    /\ pc = "pure_done"
    /\ last.op = "access_text"
    /\ last.a = AccessR + AccessX
    /\ last.shown = <<"R", "X">>
    /\ last.text = <<"W", "R", "W">>
    /\ last.parsed = {AccessR + AccessW}

\* ---------------------------------------------------------------------
\* C25: in fail_then_add_loop every probe other than the first runs while
\* the policy reported by the immediately preceding probe, which failed, is
\* enforced for the identity (its account exists, its ACL entries hold the
\* reported accesses, its D-Bus file lists the reported destinations), and
\* with an attempted set that holds every capability reported by an earlier
\* failed probe.
EnforcedInStores(pol) ==
    /\ sys.users[Username] # {}
    /\ \A f \in DOMAIN pol.files :
          \E a \in sys.acl[f][UidOf(sys, Username)] : ContainsBits(a, pol.files[f])
    /\ sys.dbus_files[Username] = {pol.dbus}

NextProbeIsLater ==
    pc = "loop" /\ loop_continues(capable) /\ hist.nprobes > 0

C26_EscalatedIterationIsLast ==
    /\ [](hist.escalated =>
            /\ ~(pc = "loop" /\ loop_continues(capable))
            /\ capable.failed => pc \in {"didNotConverge", "panicked"}
            /\ ~capable.failed => pc \in {"loop", "converged", "panicked"})
    /\ [][hist.escalated => hist'.nprobes = hist.nprobes]_vars

C26_Witness ==
    /\ pc = "converged"
    /\ hist.escalated
    /\ ~capable.failed
    /\ hist.nprobes >= 3

\* ---------------------------------------------------------------------
\* C27: two policies that list the same capability names in a different
\* order (or with duplicates) compare equal: a probe that reports the
\* requirements of the current policy with the capabilities in another order
\* increments the stable count instead of resetting it.
SameUpToCapabilityOrder(p, q) ==
    /\ Range(p.capabilities) = Range(q.capabilities)
    /\ [p EXCEPT !.capabilities = <<>>] = [q EXCEPT !.capabilities = <<>>]

C27_CapabilityOrderIrrelevant ==
    [][(pc = "loop" /\ loop_continues(capable) /\ pc' = "loop") =>
         \A r \in hist'.report :
            SameUpToCapabilityOrder(Stamp(r.report, proc'), policy)
               => looping' = looping + 1]_vars

\* ---------------------------------------------------------------------
\* C28: when the ACL grant on a path fails during enforce_policy the error
\* is returned at once: the paths before it in the iteration order hold
\* their grant, the failing path and the paths after it are as they were, no
\* D-Bus file, system.conf element, polkit entry or rule script is written,
\* and the account is left in place.
FirstMissing(order, s0) ==
    MinOf({k \in DOMAIN order : order[k] \notin s0.present})

GrantedOver(s0, uid, path, access) ==
    {AccessOr(IF s0.acl[path][uid] = {} THEN 0
              ELSE CHOOSE c \in s0.acl[path][uid] : TRUE, access)}

C28_AclFailureStopsAtOnce ==
    (/\ rt.stage = "enforce_failed"
     /\ last.op = "enforce_policy"
     /\ ~(Range(rt.order) \subseteq sys.present)) =>
       \A s0 \in rt.before :
          /\ last.status = "err"
          /\ sys.users[rt.user] # {}
          /\ \A j \in DOMAIN rt.order :
                IF j < FirstMissing(rt.order, s0)
                THEN sys.acl[rt.order[j]][UidOf(sys, rt.user)] =
                        GrantedOver(s0, UidOf(sys, rt.user), rt.order[j],
                                    rt.policy.files[rt.order[j]])
                ELSE sys.acl[rt.order[j]] = s0.acl[rt.order[j]]
          /\ sys.dbus_files = s0.dbus_files
          /\ sys.system_conf = s0.system_conf
          /\ sys.polkit = s0.polkit
          /\ sys.rules_js = s0.rules_js

C28_Witness ==
    /\ rt.stage = "enforce_failed"
    /\ last.op = "enforce_policy"
    /\ rt.order = <<"/etc/app.conf", "/var/x">>
    /\ "/var/x" \notin sys.present
    /\ rt.policy.dbus # <<>>
    /\ \A s0 \in rt.before : s0.users[rt.user] = {} /\ s0.dbus_files[rt.user] = {}
    /\ sys.acl["/etc/app.conf"][UidOf(sys, rt.user)] = {AccessR + AccessW}

\* ---------------------------------------------------------------------
\* C29: the task record written by discovery can be re-enforced by deploy:
\* when Deploy runs on a store that holds exactly the task output_policy
\* built from a policy (whose paths exist), it completes without failure,
\* and the account deploy made for the task holds exactly the recorded file
\* accesses and a D-Bus file with every recorded destination.
DeployedExactly(pol, account) ==
    /\ sys.users[account] # {}
    /\ \A f \in Paths :
          sys.acl[f][UidOf(sys, account)] =
             IF f \in DOMAIN pol.files THEN {pol.files[f]} ELSE {}
    /\ pol.dbus # <<>> =>
          \E d \in sys.dbus_files[account] : Range(pol.dbus) \subseteq Range(d)

C29_DiscoveredTaskIsDeployable ==
    \A pol \in DiscoveredPolicies, task \in TaskOptions :
       (/\ last.op = "deploy"
        /\ rt.stage = "deployed"
        /\ conf = {<<SRole(Username, <<output_task(pol, Username, task)>>)>>}
        /\ DOMAIN pol.files \subseteq sys.present)
          => /\ last.status = "ok"
             /\ DeployedExactly(pol,
                   format_role_task(Username, output_task(pol, Username, task).name))

\* ---------------------------------------------------------------------
\* C30: the confirmation of Deploy and Undeploy: when the config file
\* exists, --yes continues without reading the answer, and without --yes the
\* command continues for the answer y (in either case) or an empty line and
\* is cancelled for any other answer; when the config file is missing the
\* command ends with NotFound, with or without --yes.
AnswerAccepts(input) ==
    to_lowercase(trim(input)) = <<"y">> \/ trim(input) = <<>>

C30_ConfirmationContract ==
    last.op \in {"deploy", "undeploy"} =>
       IF ~last.exists THEN last.status = "NotFound"
       ELSE IF last.yes \/ AnswerAccepts(last.input)
            THEN last.status \notin {"NotFound", "cancelled"}
            ELSE last.status = "cancelled"

\* ---------------------------------------------------------------------
\* C31: within fail_then_add_loop the apply and remove calls for the
\* identity strictly alternate, starting with an apply, and each remove is
\* given the policy of the apply before it: every remove of an iteration is
\* made while exactly its policy is enforced, every apply while nothing is,
\* a policy counted as enforced is in the stores, and when the loop returns
\* (Ok or DidNotConverge) nothing is enforced for the identity.
RECURSIVE WalkCalls(_, _)
WalkCalls(current, ops) ==
    IF ops = <<>> THEN [alternate |-> TRUE, current |-> current]
    ELSE IF Head(ops).op = "remove"
    THEN IF current = {Head(ops).policy} THEN WalkCalls({}, Tail(ops))
         ELSE [alternate |-> FALSE, current |-> current]
    ELSE IF current = {} THEN WalkCalls({Head(ops).policy}, Tail(ops))
         ELSE [alternate |-> FALSE, current |-> current]

C31_EnforceRevokeAlternate ==
    /\ WalkCalls(hist.enforcedAt, hist.ops).alternate
    /\ pc # "panicked" =>
          /\ WalkCalls(hist.enforcedAt, hist.ops).current = hist.enforced
          /\ \A p \in hist.enforced : EnforcedInStores(p)
          /\ hist.enforced = {} => NothingGranted
    /\ pc \in {"converged", "didNotConverge"} => hist.enforced = {}

C31_Witness ==
    /\ pc = "loop"
    /\ hist.nprobes >= 2
    /\ Len(hist.ops) = 2
    /\ hist.ops[1].op = "remove"
    /\ hist.ops[2].op = "apply"
    /\ hist.ops[1].policy.files # hist.ops[2].policy.files
    /\ hist.enforced = {policy}

\* ---------------------------------------------------------------------
\* C32: the password policy requested on the command line, which main
\* stores in policy.password_prompt before discovery starts, is the
\* password_prompt of the policy handed to output_policy: no step of
\* discovery, in the looping or in the single-probe mode, changes it.
C32_PasswordPolicyKept ==
    [][(pc \in {"loop", "single"}) =>
          policy'.password_prompt = policy.password_prompt]_vars

\* ---------------------------------------------------------------------
\* C33: remove_role_based_access leaves untouched the identities that do
\* not appear in the given store: their account, their ACL entries, their
\* D-Bus policy file and their polkit entry are the same after Undeploy as
\* before.
StoreIdentities(roles) ==
    {format_role_task(store_tasks(roles)[i].r_name, store_tasks(roles)[i].task.name) :
        i \in DOMAIN store_tasks(roles)}
    \cup {a.name : a \in UNION {store_tasks(roles)[i].task.cred.setuid :
                                  i \in DOMAIN store_tasks(roles)}}

C33_UndeployLeavesOthers ==
    [][(last'.op = "undeploy" /\ last'.status \notin {"NotFound", "cancelled"}) =>
         \A c \in conf : \A n \in (DOMAIN sys.users) \ StoreIdentities(c) :
            /\ sys'.users[n] = sys.users[n]
            /\ sys'.dbus_files[n] = sys.dbus_files[n]
            /\ (n \in DOMAIN sys.polkit.doc) <=> (n \in DOMAIN sys'.polkit.doc)
            /\ \A u \in sys.users[n], f \in Paths : sys'.acl[f][u] = sys.acl[f][u]]_vars

\* ---------------------------------------------------------------------
\* C34: the in-place merge agrees with the merge operator: for all policies
\* a and b, the value of a after `a |= b` equals `a | b` on capabilities,
\* files, dbus, env_vars, setuid, setgid and password_prompt.
C34_AssignAgreesWithBitor ==
    (pc = "pure_done" /\ last.op = "bitor") =>
       Policy_bitor_assign(last.a, last.b) = Policy_bitor(last.a, last.b)

====
